---- MODULE Spec2Model ----
(***************************************************************************)
(* Model of the libwebsockets dbus role (lib/roles/dbus/dbus.c): the       *)
(* bridge between libdbus watches / timeouts and the lws event loop.       *)
(*                                                                         *)
(* A shadow wsi is identified by the descriptor it is registered under in  *)
(* the per-thread descriptor table.  libdbus tokens (DBusWatch,            *)
(* DBusTimeout) are opaque names with fixed query results.                 *)
(***************************************************************************)
EXTENDS Integers, Sequences, FiniteSets, TLC

(***************************************************************************)
(* Bounds of the model                                                     *)
(***************************************************************************)
\* context->fd_limit_per_thread: descriptors 0 .. fd_limit_per_thread-1 are valid
fd_limit_per_thread == 7
\* time(NULL) and the periodic tick's "now" range over 0 .. MaxTime seconds
MaxTime == 1
\* most entries linked on the per-thread timer list at once
MaxTimers == 2
\* cap on ctx->timeouts (it only grows when fired timers are never removed)
MaxTimeouts == 2
\* most messages libdbus holds buffered for dispatch
MaxPending == 1
\* the count of closing notifications saturates here
MaxClosings == 2

(***************************************************************************)
(* Program constants                                                       *)
(***************************************************************************)
\* if (ms < 1000) ms = 1000;
MinIntervalMs == 1000
\* LWS_ARRAY_SIZE(ctx->w): the watch slots of struct lws_dbus_ctx
NumSlots == 2

NULL == "NULL"

\* the DBusConnection a connection context is set up with
CONN == "CONN"

\* What a pointer field nobody has written can hold besides NULL: BAD points
\* to no readable memory (using it is a SIGSEGV), JUNK points to readable
\* memory that is no libdbus object (using it reads whatever is there).
BAD == "BAD"
JUNK == "JUNK"

Ctx == {"A", "B"}
Watch == {"W1", "W2", "W3", "W4", "W5"}
Timer == {"T1", "T2", "T3"}

\* what a pointer field nobody has written can hold: NULL, BAD, JUNK, or a
\* stale pointer that equals the address libdbus gives one of the watches
UninitPtr == {NULL, BAD, JUNK} \cup Watch
Slots == 0 .. (NumSlots - 1)

DBUS_WATCH_READABLE == "READABLE"
DBUS_WATCH_WRITABLE == "WRITABLE"
LWS_POLLIN == "POLLIN"
LWS_POLLOUT == "POLLOUT"
LWS_POLLHUP == "POLLHUP"

\* the user data each libdbus object's callbacks were registered with
WatchCtx(wt) == IF wt \in {"W1", "W2", "W3"} THEN "A" ELSE "B"
TimerCtx(t) == IF t \in {"T1", "T2"} THEN "A" ELSE "B"

\* dbus_watch_get_unix_fd(w): W1, W2 (and B's W4) share descriptor 5; W5
\* reports a descriptor outside the table
dbus_watch_get_unix_fd(wt) ==
    CASE wt \in {"W1", "W2", "W4"} -> 5
      [] wt = "W3" -> 6
      [] OTHER -> fd_limit_per_thread

\* dbus_timeout_get_interval(t), in milliseconds
dbus_timeout_get_interval(t) ==
    CASE t = "T1" -> 200
      [] t = "T2" -> 5000
      [] OTHER -> 1

VARIABLES
    ndebug,               \* build flavour: TRUE when assert() is compiled out
    insert_events,        \* the poll events __insert_wsi_socket_into_fds
                          \* registers a fresh wsi with
    aborted,              \* an assert() fired: the process is gone
    lock,                 \* the thread slot's pt lock is held
    wflags,               \* dbus_watch_get_flags(w) of every watch, and what
                          \* it reads through a JUNK pointer
    w,                    \* ctx->w[]: the watch slots of every context
    conn,                 \* ctx->conn: NULL for a server
    cb_closing,           \* ctx->cb_closing != NULL
    hup,                  \* ctx->hup
    timeouts,             \* ctx->timeouts
    fds,                  \* wsi_from_fd(): the shadow wsi registered per fd
    count_wsi_allocated,  \* context->count_wsi_allocated
    timer_list,           \* pt->dbus.timer_list_head, head first
    clock,                \* time(NULL)
    pending,              \* messages libdbus holds buffered, per connection
    pc,                   \* where rops_handle_POLLIN_dbus stands
    cur,                  \* its locals
    closings,             \* history: calls of ctx->cb_closing, per context
    last                  \* history: the operation that ran last

vars == <<ndebug, insert_events, aborted, lock, wflags, w, conn, cb_closing, hup, timeouts,
          fds, count_wsi_allocated, timer_list, clock, pending, pc, cur,
          closings, last>>

Min(S) == CHOOSE x \in S : \A y \in S : x <= y

\* the end of the timer list: a NULL struct lws_dll pointer
NoEntry == -1

\* no timer entry: what goes with a NULL pointer
NoRec == [data |-> NULL, fire |-> 0, t0 |-> 0, addr |-> NoEntry]

\* the dispatcher's locals while it is not running
NoCur == [ctx |-> NULL, fd |-> -1, flags |-> {}, n |-> 0, wt |-> NULL]

\* history record of the operation that ran last: its name and what it
\* returned; for a step of the readiness dispatcher the context, the watch
\* handled and the descriptor; for a step of the periodic sweep its "now" and
\* the timer entry it calls dbus_timeout_handle for, and when
\* dbus_timeout_handle has returned the entry it was called for (handled)
\* and the linked entry the sweep then unlinked and freed (freed); whether
\* the step called
\* ctx->cb_closing; whether the step ran with the pt lock held;
\* and, once rops_handle_POLLIN_dbus has returned, what it returned
Event(op, ret) ==
    [op |-> op, ret |-> ret, ctx |-> NULL, tok |-> NULL, fd |-> -1,
     fired |-> {}, now |-> -1, handled |-> NoRec, freed |-> NoRec,
     cb |-> FALSE, locked |-> FALSE, hpi |-> ""]

\* lws_dbus_add_watch / lws_dbus_remove_watch run between lws_pt_lock and
\* lws_pt_unlock
LockedEvent(op, ret) == [Event(op, ret) EXCEPT !.locked = TRUE]

\* rops_handle_POLLIN_dbus takes no lock: it runs with the lock as it is
DispatchEvent(op, c, tok, fd, ret) ==
    [Event(op, ret) EXCEPT !.ctx = c, !.tok = tok, !.fd = fd, !.locked = lock]

LWS_HPI_RET_HANDLED == "HANDLED"

(***************************************************************************)
(* The descriptor table of the thread slot (lws core, outside dbus.c)      *)
(***************************************************************************)
NoWsi == [owner |-> NULL, events |-> {}]

wsi_from_fd(f, fd) == f[fd]

\* the poll events the table can register a fresh wsi with.  The code of
\* __insert_wsi_socket_into_fds is outside dbus.c and register_descriptor is
\* specified by its signature only: any mask is possible.
FreshEvents == SUBSET {LWS_POLLIN, LWS_POLLOUT}

\* __insert_wsi_socket_into_fds, with wsi->opaque_parent_data = ctx
insert_wsi_socket_into_fds(f, fd, c) ==
    [f EXCEPT ![fd] = [owner |-> c, events |-> insert_events]]

remove_wsi_socket_from_fds(f, fd) == [f EXCEPT ![fd] = NoWsi]

\* __lws_change_pollfd(wsi, _and, _or): events = (events & ~_and) | _or
lws_change_pollfd(f, fd, and_, or_) ==
    [f EXCEPT ![fd].events = (@ \ and_) \cup or_]

(***************************************************************************)
(* Shadow wsi lifecycle                                                    *)
(***************************************************************************)
\* __lws_shadow_wsi(ctx, w, fd, create_ok).  allocOk / insertOk are the
\* outcomes of lws_zalloc and __insert_wsi_socket_into_fds.  res is "wsi"
\* (the handle registered under .wsi), "null", or "abort" (assert fired).
NoShadow ==
    [res |-> "null", wsi |-> -1, w |-> w, fds |-> fds,
     count |-> count_wsi_allocated]

\* its second half: allocate the wsi, bind it to ctx and insert it
ShadowCreate(c, wt, fd, allocOk, insertOk) ==
    IF ~allocOk THEN NoShadow
    ELSE LET w1 == [w EXCEPT ![c][0] = wt]
         IN  IF ~insertOk
             THEN [NoShadow EXCEPT !.w = w1]
             ELSE [res |-> "wsi", wsi |-> fd, w |-> w1,
                   fds |-> insert_wsi_socket_into_fds(fds, fd, c),
                   count |-> count_wsi_allocated + 1]

\* faulty variant: create_ok is not looked at, so a lookup that misses creates
lws_shadow_wsi_IgnoresCreateOk(c, wt, fd, create_ok, allocOk, insertOk) ==
    IF fd < 0 \/ fd >= fd_limit_per_thread
    THEN [NoShadow EXCEPT !.res = IF ndebug THEN "null" ELSE "abort"]
    ELSE IF wsi_from_fd(fds, fd).owner # NULL
    THEN IF wsi_from_fd(fds, fd).owner = c \/ ndebug
         THEN [NoShadow EXCEPT !.res = "wsi", !.wsi = fd]
         ELSE [NoShadow EXCEPT !.res = "abort"]
    ELSE ShadowCreate(c, wt, fd, allocOk, insertOk)

lws_shadow_wsi(c, wt, fd, create_ok, allocOk, insertOk) ==
    IF fd < 0 \/ fd >= fd_limit_per_thread
    THEN [NoShadow EXCEPT !.res = IF ndebug THEN "null" ELSE "abort"]
    ELSE IF wsi_from_fd(fds, fd).owner # NULL
    THEN IF wsi_from_fd(fds, fd).owner = c \/ ndebug
         THEN [NoShadow EXCEPT !.res = "wsi", !.wsi = fd]
         ELSE [NoShadow EXCEPT !.res = "abort"]
    ELSE IF ~create_ok THEN NoShadow
    ELSE ShadowCreate(c, wt, fd, allocOk, insertOk)

\* __lws_shadow_wsi_destroy(ctx, wsi); removeOk is the outcome of
\* __remove_wsi_socket_from_fds
lws_shadow_wsi_destroy(f, cnt, fd, removeOk) ==
    IF ~removeOk
    THEN [fds |-> f, count |-> cnt, ret |-> 1]
    ELSE [fds |-> remove_wsi_socket_from_fds(f, fd), count |-> cnt - 1,
          ret |-> 0]

(***************************************************************************)
(* Watch registry                                                          *)
(***************************************************************************)
\* the two loops of lws_dbus_add_watch that find w or put it in the first
\* free slot
RecordWatch(slots, wt) ==
    IF \E n \in Slots : slots[n] = wt
    THEN slots
    ELSE IF \E n \in Slots : slots[n] = NULL
         THEN [slots EXCEPT ![Min({n \in Slots : slots[n] = NULL})] = wt]
         ELSE slots

\* the loop of lws_dbus_remove_watch that clears the first slot holding w
ClearWatch(slots, wt) ==
    IF \E n \in Slots : slots[n] = wt
    THEN [slots EXCEPT ![Min({n \in Slots : slots[n] = wt})] = NULL]
    ELSE slots

\* flags |= dbus_watch_get_flags(ctx->w[n]) over the occupied slots
MergedFlags(slots) ==
    UNION {wflags[slots[n]] : n \in {k \in Slots : slots[k] # NULL}}

\* dbus_watch_get_flags(ctx->w[n]) reads through a pointer to no memory
DerefFaults(slots) == \E n \in Slots : slots[n] = BAD

\* the poll events add_watch sets for the merged dbus flags
SetMask(flags) ==
    (IF DBUS_WATCH_READABLE \in flags THEN {LWS_POLLIN} ELSE {})
    \cup (IF DBUS_WATCH_WRITABLE \in flags THEN {LWS_POLLOUT} ELSE {})

\* the poll events remove_watch clears: those no remaining watch asks for
ClearMask(flags) ==
    (IF DBUS_WATCH_READABLE \notin flags THEN {LWS_POLLIN} ELSE {})
    \cup (IF DBUS_WATCH_WRITABLE \notin flags THEN {LWS_POLLOUT} ELSE {})

lws_dbus_add_watch(wt, c, env) ==
    /\ ~aborted
    /\ ~lock
    /\ LET fd == dbus_watch_get_unix_fd(wt)
           r == lws_shadow_wsi(c, wt, fd, TRUE, env.alloc, env.insert)
       IN  CASE r.res = "abort" ->
                  /\ aborted' = TRUE
                  /\ lock' = TRUE
                  /\ last' = LockedEvent("add_watch", "abort")
                  /\ UNCHANGED <<w, fds, count_wsi_allocated>>
             [] r.res = "null" ->
                  /\ w' = r.w
                  /\ fds' = r.fds
                  /\ count_wsi_allocated' = r.count
                  /\ lock' = FALSE
                  /\ last' = LockedEvent("add_watch", "FALSE")
                  /\ UNCHANGED aborted
             [] OTHER ->
                  LET slots == RecordWatch(r.w[c], wt)
                      lws_flags == SetMask(MergedFlags(slots))
                  IN  /\ w' = [r.w EXCEPT ![c] = slots]
                      /\ count_wsi_allocated' = r.count
                      /\ IF DerefFaults(slots)
                         THEN /\ aborted' = TRUE
                              /\ lock' = TRUE
                              /\ fds' = r.fds
                              /\ last' = LockedEvent("add_watch", "SIGSEGV")
                         ELSE /\ fds' = lws_change_pollfd(r.fds, r.wsi, {},
                                                          lws_flags)
                              /\ lock' = FALSE
                              /\ last' = LockedEvent("add_watch", "TRUE")
                              /\ UNCHANGED aborted
    /\ UNCHANGED <<ndebug, insert_events, wflags, conn, cb_closing, hup, timeouts,
                   timer_list, clock, pending, pc, cur, closings>>

lws_dbus_remove_watch(wt, c) ==
    /\ ~aborted
    /\ ~lock
    /\ LET fd == dbus_watch_get_unix_fd(wt)
           r == lws_shadow_wsi(c, wt, fd, FALSE, TRUE, TRUE)
       IN  CASE r.res = "abort" ->
                  /\ aborted' = TRUE
                  /\ lock' = TRUE
                  /\ last' = LockedEvent("remove_watch", "abort")
                  /\ UNCHANGED <<w, fds, count_wsi_allocated>>
             [] r.res = "null" ->
                  /\ w' = r.w
                  /\ fds' = r.fds
                  /\ count_wsi_allocated' = r.count
                  /\ lock' = FALSE
                  /\ last' = LockedEvent("remove_watch", "nowsi")
                  /\ UNCHANGED aborted
             [] OTHER ->
                  LET slots == ClearWatch(r.w[c], wt)
                      lws_flags == ClearMask(MergedFlags(slots))
                  IN  /\ w' = [r.w EXCEPT ![c] = slots]
                      /\ count_wsi_allocated' = r.count
                      /\ IF DerefFaults(slots)
                         THEN /\ aborted' = TRUE
                              /\ lock' = TRUE
                              /\ fds' = r.fds
                              /\ last' = LockedEvent("remove_watch", "SIGSEGV")
                         ELSE /\ fds' = lws_change_pollfd(r.fds, r.wsi,
                                                          lws_flags, {})
                              /\ lock' = FALSE
                              /\ last' = LockedEvent("remove_watch", "done")
                              /\ UNCHANGED aborted
    /\ UNCHANGED <<ndebug, insert_events, wflags, conn, cb_closing, hup, timeouts,
                   timer_list, clock, pending, pc, cur, closings>>

\* enabled is dbus_watch_get_enabled(w)
lws_dbus_toggle_watch(wt, c, enabled, env) ==
    IF enabled
    THEN lws_dbus_add_watch(wt, c, env)
    ELSE lws_dbus_remove_watch(wt, c)

(***************************************************************************)
(* Readiness dispatch                                                      *)
(***************************************************************************)
\* check_destroy_shadow_wsi(ctx, wsi) with ctx->hup = hupv and pend messages
\* still buffered in libdbus.  cb tells whether ctx->cb_closing was called.
check_destroy_shadow_wsi(c, fd, hupv, pend, removeOk) ==
    LET same == [fds |-> fds, count |-> count_wsi_allocated, cb |-> FALSE,
                 ret |-> 0]
    IN  IF fd < 0 THEN same
        ELSE IF \E n \in Slots : w[c][n] # NULL THEN same
        ELSE LET d == lws_shadow_wsi_destroy(fds, count_wsi_allocated, fd,
                                             removeOk)
                 gone == [same EXCEPT !.fds = d.fds, !.count = d.count]
             IN  IF conn[c] = NULL \/ ~hupv \/ timeouts[c] # 0 THEN gone
                 ELSE IF pend > 0 THEN gone
                 ELSE [gone EXCEPT !.cb = cb_closing[c], !.ret = 1]

\* the poll -> dbus flag translation at the top of rops_handle_POLLIN_dbus
WatchFlags(revents) ==
    (IF LWS_POLLIN \in revents THEN {DBUS_WATCH_READABLE} ELSE {})
    \cup (IF LWS_POLLOUT \in revents THEN {DBUS_WATCH_WRITABLE} ELSE {})

\* the dispatcher dies of a SIGSEGV in the step that ev records
DispatcherFaults(ev) ==
    /\ aborted' = TRUE
    /\ last' = [ev EXCEPT !.hpi = "SIGSEGV"]
    /\ UNCHANGED <<pc, cur, pending, fds, count_wsi_allocated, closings>>

\* rops_handle_POLLIN_dbus from its forwarding loop at slot n on, up to the
\* next call into libdbus (dbus_watch_handle, dbus_connection_dispatch) or to
\* its return.  pend is libdbus's buffered message count at this point.
\* dbus_watch_handle on a slot, or
\* dbus_connection_get_dispatch_status(ctx->conn), through a pointer to no
\* memory ends the process.
RunDispatcher(c, fd, flags, n, pend, hupv, removeOk, ev) ==
    LET occ == {k \in Slots : k >= n /\ w[c][k] # NULL}
    IN  IF occ # {}
        THEN IF w[c][Min(occ)] = BAD
             THEN DispatcherFaults(ev)
             ELSE /\ pc' = "watch_handle"
                  /\ cur' = [ctx |-> c, fd |-> fd, flags |-> flags,
                             n |-> Min(occ), wt |-> w[c][Min(occ)]]
                  /\ pending' = [pending EXCEPT ![c] = pend]
                  /\ last' = ev
                  /\ UNCHANGED <<aborted, fds, count_wsi_allocated, closings>>
        ELSE IF conn[c] = BAD
        THEN DispatcherFaults(ev)
        ELSE IF conn[c] # NULL /\ pend > 0
        THEN /\ pc' = "dispatch"
             /\ cur' = [ctx |-> c, fd |-> fd, flags |-> flags, n |-> NumSlots,
                        wt |-> NULL]
             /\ pending' = [pending EXCEPT ![c] = pend]
             /\ last' = ev
             /\ UNCHANGED <<aborted, fds, count_wsi_allocated, closings>>
        ELSE IF conn[c] # NULL
        THEN LET r == check_destroy_shadow_wsi(c, fd, hupv, pend, removeOk)
             IN  /\ pc' = "idle"
                 /\ cur' = NoCur
                 /\ pending' = [pending EXCEPT ![c] = pend]
                 /\ fds' = r.fds
                 /\ count_wsi_allocated' = r.count
                 /\ closings' = IF r.cb /\ closings[c] < MaxClosings
                                THEN [closings EXCEPT ![c] = @ + 1]
                                ELSE closings
                 /\ last' = [ev EXCEPT !.cb = r.cb,
                                        !.hpi = LWS_HPI_RET_HANDLED]
                 /\ UNCHANGED aborted
        ELSE /\ pc' = "idle"
             /\ cur' = NoCur
             /\ pending' = [pending EXCEPT ![c] = pend]
             /\ last' = [ev EXCEPT !.hpi = LWS_HPI_RET_HANDLED]
             /\ UNCHANGED <<aborted, fds, count_wsi_allocated, closings>>

\* faulty variant: ctx->hup follows the hangup flag of the latest event
HupAfter_Latest(h, revents) == LWS_POLLHUP \in revents

\* if (pollfd->revents & (LWS_POLLHUP)) ctx->hup = 1;
HupAfter(h, revents) == h \/ LWS_POLLHUP \in revents

\* the multiplexer reports revents on the shadow wsi registered under fd
rops_handle_POLLIN_dbus(fd, revents, removeOk) ==
    /\ ~aborted
    /\ pc = "idle"
    /\ fds[fd].owner # NULL
    /\ revents # {}
    /\ revents \subseteq (fds[fd].events \cup {LWS_POLLHUP})
    /\ LET c == fds[fd].owner
           hupv == HupAfter(hup[c], revents)
       IN  /\ hup' = [hup EXCEPT ![c] = hupv]
           /\ RunDispatcher(c, fd, WatchFlags(revents), 0, pending[c], hupv,
                            removeOk, DispatchEvent("handle_POLLIN", c, NULL, fd, ""))
    /\ UNCHANGED <<ndebug, insert_events, lock, wflags, w, conn, cb_closing,
                   timeouts, timer_list, clock>>

\* faulty variant: a watch that fails to handle ends the forwarding
NextSlot_StopOnFailure(n, ok) == IF ok THEN n + 1 ELSE NumSlots

\* the forwarding loop after dbus_watch_handle(ctx->w[n], flags) returned ok:
\* a failure is logged and the loop goes on
NextSlot(n, ok) == n + 1

\* dbus_watch_handle(ctx->w[n], flags) returns ok, having read newmsgs
\* messages into libdbus's queue; the dispatcher goes on from slot n + 1
dbus_watch_handle_return(ok, newmsgs, removeOk) ==
    /\ ~aborted
    /\ pc = "watch_handle"
    /\ pending[cur.ctx] + newmsgs <= MaxPending
    /\ newmsgs > 0 => (conn[cur.ctx] # NULL
                        /\ DBUS_WATCH_READABLE \in cur.flags)
    /\ RunDispatcher(cur.ctx, cur.fd, cur.flags, NextSlot(cur.n, ok),
                     pending[cur.ctx] + newmsgs, hup[cur.ctx], removeOk,
                     DispatchEvent("dbus_watch_handle", cur.ctx, cur.wt, cur.fd,
                           IF ok THEN "TRUE" ELSE "FALSE"))
    /\ UNCHANGED <<ndebug, insert_events, lock, wflags, w, conn, cb_closing, hup,
                   timeouts, timer_list, clock>>

\* dbus_connection_dispatch(ctx->conn) returns, having consumed one message;
\* the drain loop goes on
dbus_connection_dispatch_return(removeOk) ==
    /\ ~aborted
    /\ pc = "dispatch"
    /\ RunDispatcher(cur.ctx, cur.fd, cur.flags, NumSlots,
                     pending[cur.ctx] - 1, hup[cur.ctx], removeOk,
                     DispatchEvent("dbus_connection_dispatch", cur.ctx, NULL,
                                   cur.fd, ""))
    /\ UNCHANGED <<ndebug, insert_events, lock, wflags, w, conn, cb_closing, hup,
                   timeouts, timer_list, clock>>

(***************************************************************************)
(* Timer list                                                              *)
(***************************************************************************)
\* the addresses lws_malloc can give a struct lws_role_dbus_timer: more than
\* the entries that can be linked at once
Addr == 0 .. (MaxTimers + 1)

\* the addresses of the entries linked on list
Linked(list) == {list[i].addr : i \in 1 .. Len(list)}

\* the addresses the sweep of rops_periodic_checks_dbus holds in its locals
\* rdt and nx while it is inside dbus_timeout_handle
SweepPointers == IF pc = "timeout_handle" THEN {cur.rdt, cur.nx} ELSE {}

\* what lws_malloc can return for a new entry: an address that is not in
\* use, which may be one the running sweep still points to, freed since by
\* lws_dbus_remove_timeout.  Addresses nothing points to are interchangeable
\* and the lowest is taken.
MallocChoices ==
    LET free == Addr \ Linked(timer_list)
    IN  {Min(free \ SweepPointers)} \cup (free \cap SweepPointers)

\* dbt->fire for a timer of interval ms0 added at time ti
FireTime(ti, ms0) ==
    LET ms == IF ms0 < MinIntervalMs THEN MinIntervalMs ELSE ms0
    IN  ti + (IF ms < MinIntervalMs THEN 1 ELSE 0)

\* faulty variant: the enabled state of the timeout is not looked at
TimeoutIgnored_Never(enabled) == FALSE

\* if (!dbus_timeout_get_enabled(t)) return TRUE;
TimeoutIgnored(enabled) == ~enabled

\* enabled is dbus_timeout_get_enabled(t), allocOk the outcome of lws_malloc.
\* An entry is known by its address and keeps, as history, the time t0 it
\* was added at.  When lws_malloc hands out the address the running sweep
\* holds in nx, the memory the sweep will read there (cur.nxrec) is the new
\* entry's from now on, also after the entry is removed again.
lws_dbus_add_timeout(t, c, enabled, allocOk) ==
    /\ ~aborted
    /\ (~TimeoutIgnored(enabled) /\ allocOk) =>
           (Len(timer_list) < MaxTimers /\ timeouts[c] < MaxTimeouts)
    /\ IF TimeoutIgnored(enabled)
       THEN /\ last' = Event("add_timeout", "TRUE")
            /\ UNCHANGED <<timer_list, timeouts, cur>>
       ELSE IF ~allocOk
       THEN /\ last' = Event("add_timeout", "FALSE")
            /\ UNCHANGED <<timer_list, timeouts, cur>>
       ELSE /\ \E a \in MallocChoices :
                  LET dbt == [data |-> t,
                              fire |-> FireTime(clock,
                                                dbus_timeout_get_interval(t)),
                              t0 |-> clock, addr |-> a]
                  IN  /\ timer_list' = <<dbt>> \o timer_list
                      /\ cur' = IF pc = "timeout_handle" /\ a = cur.nx
                                THEN [cur EXCEPT !.nxrec = dbt]
                                ELSE cur
            /\ timeouts' = [timeouts EXCEPT ![c] = @ + 1]
            /\ last' = Event("add_timeout", "TRUE")
    /\ UNCHANGED <<ndebug, insert_events, aborted, lock, wflags, w, conn, cb_closing, hup,
                   fds, count_wsi_allocated, clock, pending, pc, closings>>

\* the list without its first entry whose token is t
RECURSIVE UnlinkFirst(_, _)
UnlinkFirst(list, t) ==
    IF list = <<>> THEN <<>>
    ELSE IF Head(list).data = t THEN Tail(list)
    ELSE <<Head(list)>> \o UnlinkFirst(Tail(list), t)

\* the address of the first entry of list whose token is t
FirstAddr(list, t) ==
    list[Min({i \in 1 .. Len(list) : list[i].data = t})].addr

\* lws_dll_remove and lws_free of the first entry for t.  When the running
\* sweep holds its address in rdt or nx, that pointer dangles from now on
\* (cur.dangling), also when lws_malloc hands the address out again.
lws_dbus_remove_timeout(t, c) ==
    /\ ~aborted
    /\ IF \E i \in 1 .. Len(timer_list) : timer_list[i].data = t
       THEN /\ timer_list' = UnlinkFirst(timer_list, t)
            /\ timeouts' = [timeouts EXCEPT ![c] = @ - 1]
            /\ cur' = IF FirstAddr(timer_list, t) \in SweepPointers
                      THEN [cur EXCEPT !.dangling = TRUE]
                      ELSE cur
            /\ last' = Event("remove_timeout", "removed")
       ELSE /\ last' = Event("remove_timeout", "absent")
            /\ UNCHANGED <<timer_list, timeouts, cur>>
    /\ UNCHANGED <<ndebug, insert_events, aborted, lock, wflags, w, conn,
                   cb_closing, hup, fds, count_wsi_allocated, clock, pending,
                   pc, closings>>

lws_dbus_toggle_timeout(t, c, enabled, allocOk) ==
    IF enabled
    THEN lws_dbus_add_timeout(t, c, enabled, allocOk)
    ELSE lws_dbus_remove_timeout(t, c)

\* the test of the sweep: if (now > r->fire)
TimerDue(now, fire) == now > fire

\* The sweep of rops_periodic_checks_dbus runs step by step, from one call of
\* dbus_timeout_handle to the next: libdbus can call lws_dbus_remove_timeout,
\* lws_dbus_add_timeout and the watch callbacks from inside
\* dbus_timeout_handle.

\* the entry of list at address a
EntryAt(list, a) ==
    IF a \in Linked(list)
    THEN list[CHOOSE i \in 1 .. Len(list) : list[i].addr = a]
    ELSE NoRec

\* rdt->next of the linked entry at address a
NextOf(list, a) ==
    LET i == CHOOSE k \in 1 .. Len(list) : list[k].addr = a
    IN  IF i < Len(list) THEN list[i + 1].addr ELSE NoEntry

\* lws_dll_remove of the linked entry at address a
RECURSIVE UnlinkAddr(_, _)
UnlinkAddr(list, a) ==
    IF list = <<>> THEN <<>>
    ELSE IF Head(list).addr = a THEN Tail(list)
    ELSE <<Head(list)>> \o UnlinkAddr(Tail(list), a)

\* The loop of the sweep from the entry at address p on, up to the next entry
\* that is due ("call": dbus_timeout_handle is called for rdt, whose fields
\* read as rec; nx is the saved rdt->next) or to the end of the list
\* ("done").  When p is not linked any more, lws_dbus_remove_timeout has
\* freed the entry and the loop reads freed memory (released): stale tells
\* what the entry held, its next pointer cleared by lws_dll_remove.  That is
\* what an allocator that leaves freed memory alone shows; one that writes
\* into it leaves garbage for the next pointer, and the sweep that follows
\* it ends in the crash of dbus_timeout_handle_return.
RECURSIVE SweepFrom(_, _, _, _)
SweepFrom(list, now, p, stale) ==
    IF p = NoEntry
    THEN [at |-> "done", rdt |-> NoEntry, nx |-> NoEntry, rec |-> NoRec,
          released |-> FALSE]
    ELSE IF p \notin Linked(list)
    THEN IF TimerDue(now, stale.fire)
         THEN [at |-> "call", rdt |-> p, nx |-> NoEntry, rec |-> stale,
               released |-> TRUE]
         ELSE [at |-> "done", rdt |-> NoEntry, nx |-> NoEntry, rec |-> NoRec,
               released |-> TRUE]
    ELSE IF TimerDue(now, EntryAt(list, p).fire)
    THEN [at |-> "call", rdt |-> p, nx |-> NextOf(list, p),
          rec |-> EntryAt(list, p), released |-> FALSE]
    ELSE SweepFrom(list, now, NextOf(list, p), NoRec)

\* where the sweep stands after SweepFrom answered r: inside
\* dbus_timeout_handle for r.rec, or returned.  The sweep keeps the pointers
\* rdt and nx only; cur.nxrec is what the memory at nx holds, which
\* lws_dbus_add_timeout rewrites when lws_malloc hands that address out
\* again, and which the sweep reads after dbus_timeout_handle returned.
SweepGoesOn(r, now, ev) ==
    IF r.at = "call"
    THEN /\ pc' = "timeout_handle"
         /\ cur' = [now |-> now, rdt |-> r.rdt, nx |-> r.nx, rec |-> r.rec,
                    nxrec |-> EntryAt(timer_list', r.nx),
                    dangling |-> r.released]
         /\ last' = [ev EXCEPT !.tok = r.rec.data, !.fired = {r.rec},
                               !.now = now]
    ELSE /\ pc' = "idle"
         /\ cur' = NoCur
         /\ last' = [ev EXCEPT !.now = now]

\* the loop calls this once per pass with now = time(NULL)
rops_periodic_checks_dbus(now) ==
    /\ ~aborted
    /\ pc = "idle"
    /\ timer_list' = timer_list
    /\ SweepGoesOn(SweepFrom(timer_list, now,
                              IF timer_list = <<>> THEN NoEntry
                              ELSE Head(timer_list).addr, NoRec),
                    now, Event("periodic_checks", ""))
    /\ UNCHANGED <<ndebug, insert_events, aborted, lock, wflags, w, conn, cb_closing, hup,
                   timeouts, fds, count_wsi_allocated, clock, pending,
                   closings>>

\* dbus_timeout_handle(r->data) returns: lws_dll_remove(rdt), lws_free(rdt)
\* and the loop goes on from nx.  When rdt was freed meanwhile this unlinks
\* and frees a released entry ("released_twice"); when nx was freed the loop
\* reads a released entry ("visited_released").  When lws_malloc gave the
\* address of rdt, freed meanwhile, to a new entry, that entry is the one
\* unlinked and freed.  Using a pointer to an entry that was freed, rdt or
\* nx or the next pointer read from a released entry (cur.dangling), is
\* undefined behaviour: the process dies there (crash), or the freed memory
\* still reads as it was left and the sweep goes on with what it reads.
dbus_timeout_handle_return(crash) ==
    /\ ~aborted
    /\ pc = "timeout_handle"
    /\ LET linked == cur.rdt \in Linked(timer_list)
           list1 == IF linked THEN UnlinkAddr(timer_list, cur.rdt)
                    ELSE timer_list
           r == SweepFrom(list1, cur.now, cur.nx, cur.nxrec)
           ev == [Event("dbus_timeout_handle",
                        IF ~linked THEN "released_twice"
                        ELSE IF r.released THEN "visited_released"
                        ELSE "")
                  EXCEPT !.handled = cur.rec,
                         !.freed = EntryAt(timer_list, cur.rdt)]
       IN  /\ crash => (cur.dangling \/ ev.ret # "")
           /\ timer_list' = list1
           /\ IF crash
              THEN /\ aborted' = TRUE
                   /\ last' = [ev EXCEPT !.now = cur.now]
                   /\ UNCHANGED <<pc, cur>>
              ELSE /\ SweepGoesOn(r, cur.now, ev)
                   /\ UNCHANGED aborted
    /\ UNCHANGED <<ndebug, insert_events, lock, wflags, w, conn, cb_closing, hup, timeouts,
                   fds, count_wsi_allocated, clock, pending, closings>>

\* a second passes
Tick ==
    /\ ~aborted
    /\ clock < MaxTime
    /\ clock' = clock + 1
    /\ last' = Event("time", "")
    /\ UNCHANGED <<ndebug, insert_events, aborted, lock, wflags, w, conn, cb_closing, hup,
                   timeouts, fds, count_wsi_allocated, timer_list, pending,
                   pc, cur, closings>>

(***************************************************************************)
(* Specifications                                                          *)
(***************************************************************************)
\* The state after lws_dbus_connection_setup(A, conn, cb) and
\* lws_dbus_server_listen(B, ...), in either build flavour, with the interest
\* each watch reports.  lws_dbus_server_listen writes neither ctx->w[] nor
\* ctx->conn: those fields of B hold what the memory of the struct held
\* before, zeroes or anything else.
Init ==
    /\ ndebug \in BOOLEAN
    /\ insert_events \in FreshEvents
    /\ aborted = FALSE
    /\ lock = FALSE
    /\ w \in {f \in [Ctx -> [Slots -> UninitPtr]] :
                 \A n \in Slots : f["A"][n] = NULL}
    /\ conn \in {f \in [Ctx -> UninitPtr \cup {CONN}] :
                    f["A"] = CONN /\ f["B"] # CONN}
    /\ wflags \in {f \in [Watch \cup {JUNK} ->
                             SUBSET {DBUS_WATCH_READABLE, DBUS_WATCH_WRITABLE}] :
                     /\ f["W1"] \in {{DBUS_WATCH_READABLE},
                                     {DBUS_WATCH_READABLE, DBUS_WATCH_WRITABLE}}
                     /\ f["W2"] = {DBUS_WATCH_WRITABLE}
                     /\ f["W3"] = {DBUS_WATCH_READABLE, DBUS_WATCH_WRITABLE}
                     /\ f["W4"] = {DBUS_WATCH_WRITABLE}
                     /\ f["W5"] = {DBUS_WATCH_READABLE}
                     /\ (\A n \in Slots : w["B"][n] # JUNK) => f[JUNK] = {}}
    /\ cb_closing = [c \in Ctx |-> c = "A"]
    /\ hup = [c \in Ctx |-> FALSE]
    /\ timeouts = [c \in Ctx |-> 0]
    /\ fds = [fd \in 0 .. (fd_limit_per_thread - 1) |-> NoWsi]
    /\ count_wsi_allocated = 0
    /\ timer_list = <<>>
    /\ clock = 0
    /\ pending = [c \in Ctx |-> 0]
    /\ pc = "idle"
    /\ cur = NoCur
    /\ closings = [c \in Ctx |-> 0]
    /\ last = Event("setup", "")

\* the same when the embedding code cleared the struct of B before the call
InitZeroed ==
    /\ Init
    /\ \A n \in Slots : w["B"][n] = NULL
    /\ conn["B"] = NULL

\* the same when the memory of the struct of B was filled with one value,
\* or cleared up to ctx->conn, in the build without assert(), with W1
\* interested in reading and a table that registers a fresh wsi with no
\* events
InitFilled ==
    /\ Init
    /\ ndebug
    /\ insert_events = {}
    /\ \/ \A n \in Slots : w["B"][n] = conn["B"]
       \/ \A n \in Slots : w["B"][n] = NULL
    /\ wflags["W1"] = {DBUS_WATCH_READABLE}

\* the same in the build with assert() and with W1 interested in both
\* directions, for the code that reaches no assert() and reads the interest
\* of no other watch.  Every wsi is then created by an add_watch of W1,
\* which sets both events whatever the table registered the wsi with: the
\* case of no events stands for all of them.
InitPlain ==
    /\ InitZeroed
    /\ ~ndebug
    /\ insert_events = {}
    /\ wflags["W1"] = {DBUS_WATCH_READABLE, DBUS_WATCH_WRITABLE}

\* lws_dbus_connection_setup(ctx, conn, cb_closing) on a context in use; cb
\* tells whether cb_closing is a callback, ok whether libdbus took the watch
\* and timeout functions.  The callbacks libdbus makes for the watches and
\* timeouts it holds are calls of their own.  The embedding code can call
\* it from inside a libdbus callback: the dispatcher or the sweep goes on
\* afterwards with the context as this call left it.
lws_dbus_connection_setup(c, cb, ok) ==
    /\ ~aborted
    /\ conn' = [conn EXCEPT ![c] = CONN]
    /\ cb_closing' = [cb_closing EXCEPT ![c] = cb]
    /\ hup' = [hup EXCEPT ![c] = FALSE]
    /\ timeouts' = [timeouts EXCEPT ![c] = 0]
    /\ w' = [w EXCEPT ![c] = [n \in Slots |-> NULL]]
    /\ last' = [Event("connection_setup", IF ok THEN "0" ELSE "1")
                   EXCEPT !.ctx = c]
    /\ UNCHANGED <<ndebug, insert_events, aborted, lock, wflags, fds, count_wsi_allocated,
                   timer_list, clock, pending, pc, cur, closings>>

\* lws_dbus_server_listen(ctx, ads, e, new_conn) on a context in use; ok
\* tells whether it returns the server.  It can be called from inside a
\* libdbus callback as well.
lws_dbus_server_listen(c, ok) ==
    /\ ~aborted
    /\ cb_closing' = [cb_closing EXCEPT ![c] = FALSE]
    /\ hup' = [hup EXCEPT ![c] = FALSE]
    /\ timeouts' = [timeouts EXCEPT ![c] = 0]
    /\ last' = [Event("server_listen", IF ok THEN "dbs" ELSE "NULL")
                   EXCEPT !.ctx = c]
    /\ UNCHANGED <<ndebug, insert_events, aborted, lock, wflags, w, conn, fds,
                   count_wsi_allocated, timer_list, clock, pending, pc, cur,
                   closings>>

\* what the allocator and the descriptor table answer during one call: at
\* most one of them fails
NoFailure == [alloc |-> TRUE, insert |-> TRUE]
Env == {NoFailure, [alloc |-> FALSE, insert |-> TRUE],
        [alloc |-> TRUE, insert |-> FALSE]}

Revents == SUBSET {LWS_POLLIN, LWS_POLLOUT, LWS_POLLHUP}

\* the watch callbacks libdbus makes for the watches in ws
WatchCalls(ws) ==
    \/ \E wt \in ws, env \in Env : lws_dbus_add_watch(wt, WatchCtx(wt), env)
    \/ \E wt \in ws : lws_dbus_remove_watch(wt, WatchCtx(wt))
    \/ \E wt \in ws, en \in BOOLEAN :
          lws_dbus_toggle_watch(wt, WatchCtx(wt), en, NoFailure)

\* the timeout callbacks libdbus makes for the timers in ts
TimerCalls(ts) ==
    \/ \E t \in ts, en \in BOOLEAN, a \in BOOLEAN :
          lws_dbus_add_timeout(t, TimerCtx(t), en, a)
    \/ \E t \in ts : lws_dbus_remove_timeout(t, TimerCtx(t))
    \/ \E t \in ts, en \in BOOLEAN :
          lws_dbus_toggle_timeout(t, TimerCtx(t), en, TRUE)

\* the event loop's calls into the role: readiness dispatch and what libdbus
\* returns to it.  rs holds the answers __remove_wsi_socket_from_fds can
\* give (TRUE: removed).
DispatchCalls(rs) ==
    \/ \E fd \in DOMAIN fds, rev \in Revents, r \in rs :
          rops_handle_POLLIN_dbus(fd, rev, r)
    \/ \E ok \in BOOLEAN, m \in 0 .. MaxPending, r \in rs :
          dbus_watch_handle_return(ok, m, r)
    \/ \E r \in rs : dbus_connection_dispatch_return(r)

\* the periodic tick, with now = time(NULL), what libdbus returns to it, and
\* the passing of time
TickCalls ==
    \/ rops_periodic_checks_dbus(clock)
    \/ \E crash \in BOOLEAN : dbus_timeout_handle_return(crash)
    \/ Tick

\* the embedding code sets up a context in cs again
SetupCalls(cs) ==
    \/ \E c \in cs, cb \in BOOLEAN, ok \in BOOLEAN :
          lws_dbus_connection_setup(c, cb, ok)
    \/ \E c \in cs, ok \in BOOLEAN : lws_dbus_server_listen(c, ok)

\* The whole role: every libdbus object of both contexts
Next ==
    WatchCalls(Watch) \/ TimerCalls(Timer) \/ DispatchCalls(BOOLEAN) \/ TickCalls
        \/ SetupCalls(Ctx)

Spec == Init /\ [][Next]_vars

\* The specifications below drive the same role with some of the libdbus
\* objects only, which keeps each state space small enough to explore fully.

\* the two watches of context A that share descriptor 5
NextShared == WatchCalls({"W1", "W2"}) \/ DispatchCalls(BOOLEAN)

SpecShared == InitZeroed /\ [][NextShared]_vars

\* contexts A and B contending for descriptor 5, and a watch whose
\* descriptor is outside the table
NextWatch == WatchCalls({"W1", "W4", "W5"}) \/ DispatchCalls(BOOLEAN)

SpecWatch == InitZeroed /\ [][NextWatch]_vars

\* contexts A and B contending for descriptor 5, B in a struct that was not
\* cleared and set up again at any point, also from inside a libdbus
\* callback
NextForeign ==
    WatchCalls({"W1", "W4"}) \/ DispatchCalls({TRUE}) \/ SetupCalls({"B"})

SpecForeign == InitFilled /\ [][NextForeign]_vars

\* one watch and one timer of the connection context A, which is set up
\* again at any point, also from inside a libdbus callback
NextSetup ==
    WatchCalls({"W1"}) \/ TimerCalls({"T1"}) \/ DispatchCalls({TRUE})
        \/ TickCalls \/ SetupCalls({"A"})

SpecSetup == InitPlain /\ [][NextSetup]_vars

\* the timers of context A alone
NextTimer == TimerCalls({"T1", "T2"}) \/ TickCalls

SpecTimer == InitPlain /\ [][NextTimer]_vars

\* one timer of context A alone
NextOneTimer == TimerCalls({"T1"}) \/ TickCalls

SpecOneTimer == InitPlain /\ [][NextOneTimer]_vars

\* one watch and one timer of the connection context A, through to the
\* closing notification
NextClose ==
    WatchCalls({"W1"}) \/ TimerCalls({"T1"}) \/ DispatchCalls(BOOLEAN)
        \/ TickCalls

SpecClose == InitPlain /\ [][NextClose]_vars

\* the same, with a descriptor table that never refuses a removal
NextCloseRemoved ==
    WatchCalls({"W1"}) \/ TimerCalls({"T1"}) \/ DispatchCalls({TRUE})
        \/ TickCalls

SpecCloseRemoved == InitPlain /\ [][NextCloseRemoved]_vars

\* two watches of context A that report different descriptors
NextTwoFds == WatchCalls({"W1", "W3"}) \/ DispatchCalls({TRUE})

SpecTwoFds == InitZeroed /\ [][NextTwoFds]_vars

(***************************************************************************)
(* Properties                                                              *)
(***************************************************************************)
\* the poll events the watches in the slots of context c ask for
InterestOf(c) ==
    {e \in {LWS_POLLIN, LWS_POLLOUT} :
        \E n \in Slots :
            /\ w[c][n] # NULL
            /\ (IF e = LWS_POLLIN THEN DBUS_WATCH_READABLE
                                  ELSE DBUS_WATCH_WRITABLE) \in wflags[w[c][n]]}

Occupied(c) == \E n \in Slots : w[c][n] # NULL

HasHandle(c) == \E fd \in DOMAIN fds : fds[fd].owner = c

\* C1: whenever a shadow handle exists, its installed interest mask is the
\* OR of the readable / writable interest of the watches that occupy the
\* slots of its context (watches W1 and W2 of one context, sharing one
\* descriptor).
C1_MaskIsMergedInterest ==
    \A fd \in DOMAIN fds :
        fds[fd].owner # NULL => fds[fd].events = InterestOf(fds[fd].owner)

\* C2: after every completed add_watch or remove_watch the shadow handle of
\* a context is registered if and only if one of its watch slots is occupied.
C2_HandleIffOccupied ==
    (last.op \in {"add_watch", "remove_watch"} /\ last.ret \in {"TRUE", "done"})
        => \A c \in Ctx : HasHandle(c) <=> Occupied(c)

\* C3: once remove_watch has emptied the last watch slot, no readiness event
\* reaches the dispatcher before the shadow handle is destroyed: the
\* dispatcher is never entered for a handle whose context has no occupied
\* slot.
C3_NoDispatchAfterLastRemove ==
    [][(pc = "idle" /\ last'.op = "handle_POLLIN") => Occupied(last'.ctx)]_vars

\* C4: the closing-notification callback of a context is invoked at most
\* once.
C4_ClosingAtMostOnce == \A c \in Ctx : closings[c] <= 1

\* C5: whenever the closing callback is invoked, every watch slot is empty,
\* hangup was seen, no timer is pending, libdbus has nothing buffered and
\* the shadow handle has been destroyed.
C5_ClosingOnlyWhenTornDown ==
    last.cb =>
        /\ ~Occupied(last.ctx)
        /\ hup[last.ctx]
        /\ timeouts[last.ctx] = 0
        /\ pending[last.ctx] = 0
        /\ fds[last.fd].owner = NULL

\* C6: an add_watch that returns failure leaves the context as it was: no
\* slot newly occupied or overwritten, no handle registered, the allocated
\* count unchanged, the lock released.
C6_FailedAddChangesNothing ==
    [][(last'.op = "add_watch" /\ last'.ret = "FALSE")
          => /\ w' = w
             /\ fds' = fds
             /\ count_wsi_allocated' = count_wsi_allocated
             /\ ~lock']_vars

\* the descriptor of watch wt has no shadow handle
NoHandleFor(wt) ==
    \/ dbus_watch_get_unix_fd(wt) \notin DOMAIN fds
    \/ fds[dbus_watch_get_unix_fd(wt)].owner = NULL

\* C7: a remove_watch for a descriptor that has no shadow handle, when it
\* returns, has created no handle and changed no watch slot, interest mask,
\* hangup flag or timer state, has not called the closing callback and has
\* released the lock.
C7_RemoveWithoutHandleIsNoop ==
    [][\A wt \in Watch :
          (NoHandleFor(wt) /\ lws_dbus_remove_watch(wt, WatchCtx(wt)) /\ ~aborted')
              => /\ fds' = fds
                 /\ w' = w
                 /\ hup' = hup
                 /\ timeouts' = timeouts
                 /\ timer_list' = timer_list
                 /\ count_wsi_allocated' = count_wsi_allocated
                 /\ closings' = closings
                 /\ ~last'.cb
                 /\ ~lock']_vars

\* a remove_watch found no handle while a slot still names a watch
C7_Witness ==
    /\ last.op = "remove_watch"
    /\ last.ret = "nowsi"
    /\ ~HasHandle("A")
    /\ Occupied("A")
    /\ ~lock

\* the descriptor of watch wt has a shadow handle owned by another context
ForeignHandleFor(wt) ==
    /\ dbus_watch_get_unix_fd(wt) \in DOMAIN fds
    /\ fds[dbus_watch_get_unix_fd(wt)].owner \notin {NULL, WatchCtx(wt)}

\* C8: add_watch by a context for a descriptor whose shadow handle another
\* context owns is rejected: the handle's owner and interest mask and the
\* caller's watch slots stay as they were.
C8_ForeignAddRejected ==
    [][\A wt \in Watch, env \in Env :
          (ForeignHandleFor(wt) /\ lws_dbus_add_watch(wt, WatchCtx(wt), env))
              => /\ fds' = fds
                 /\ w' = w
                 /\ last'.ret # "TRUE"]_vars

\* the interval libdbus asked for, clamped up to one second, in seconds
ClampedSeconds(t) ==
    (IF dbus_timeout_get_interval(t) < 1000
     THEN 1000 ELSE dbus_timeout_get_interval(t)) \div 1000

\* the steps of the periodic sweep
SweepOps == {"periodic_checks", "dbus_timeout_handle"}

\* rops_periodic_checks_dbus has just returned
SweepDone == last.op \in SweepOps /\ pc = "idle" /\ ~aborted

\* C9: a timer added at t0 with interval I has the deadline
\* t0 + max(I, 1000) / 1000: no periodic tick earlier than that fires it.
C9_NoFireBeforeInterval ==
    \A e \in last.fired : last.now >= e.t0 + ClampedSeconds(e.data)

SubSecond(e) == dbus_timeout_get_interval(e.data) < 1000

\* C10: a timer added at t0 with a sub-second interval is fired by no tick
\* earlier than t0 + 1, and the tick at t0 + 1 fires it and unlinks it: a
\* tick unlinks no such timer but the one it has fired, and when a tick has
\* returned, no such timer it found due is left linked.
C10_SubSecondFiresAfterOneSecond ==
    /\ \A e \in last.fired : SubSecond(e) => last.now >= e.t0 + 1
    /\ (last.freed # NoRec /\ SubSecond(last.freed)) =>
          last.freed = last.handled
    /\ SweepDone =>
          \A i \in 1 .. Len(timer_list) :
              SubSecond(timer_list[i]) => last.now < timer_list[i].t0 + 1

\* C11: a periodic tick at now fires and unlinks every entry whose recorded
\* fire time is at or before now and leaves linked, unfired, every entry
\* whose recorded fire time is after now, wherever the entries stand in the
\* list.
C11_TickFiresAllDue ==
    /\ \A e \in last.fired : e.fire <= last.now
    /\ SweepDone =>
          \A i \in 1 .. Len(timer_list) : timer_list[i].fire > last.now

\* C12: add_timeout for a timer that reports itself disabled returns success
\* and changes nothing: no entry is linked and ctx->timeouts is not
\* incremented, so the timer list holds nothing a later tick could fire for
\* it.
C12_DisabledAddIsNoop ==
    [][\A t \in Timer, a \in BOOLEAN :
          lws_dbus_add_timeout(t, TimerCtx(t), FALSE, a)
              => /\ timer_list' = timer_list
                 /\ timeouts' = timeouts
                 /\ last'.ret = "TRUE"]_vars

\* an add_timeout returned success and nothing is linked or counted: the
\* timer was disabled, and at this later second no tick has an entry of it
C12_Witness ==
    /\ last.op = "add_timeout"
    /\ last.ret = "TRUE"
    /\ clock > 0
    /\ timer_list = <<>>
    /\ \A c \in Ctx : timeouts[c] = 0

\* C13: at most one shadow handle owned by a context is registered in the
\* descriptor table, whatever descriptors its watches report.
C13_OneHandlePerContext ==
    \A c \in Ctx : Cardinality({fd \in DOMAIN fds : fds[fd].owner = c}) <= 1

\* the steps of rops_handle_POLLIN_dbus
DispatcherOps == {"handle_POLLIN", "dbus_watch_handle", "dbus_connection_dispatch"}

\* C14: the dispatcher forwards, drains and then runs the destruction check,
\* so when libdbus removes its last watch while the dispatcher is forwarding,
\* the dispatch that then returns has destroyed the shadow handle.
C14_DestroyedInSamePass ==
    [][(last'.op = "dbus_watch_handle" /\ conn[last'.ctx] # NULL /\ pc' = "idle"
            /\ ~Occupied(last'.ctx))
          => fds'[last'.fd].owner = NULL]_vars

\* the timer entries of context c that are linked on the timer list
LinkedTimers(c) ==
    {i \in 1 .. Len(timer_list) : TimerCtx(timer_list[i].data) = c}

\* C15: ctx->timeouts always equals the number of the context's timer
\* entries linked on the timer list, after any add_timeout, remove_timeout,
\* toggle_timeout and periodic tick.
C15_TimeoutsCountsLinked ==
    \A c \in Ctx : timeouts[c] = Cardinality(LinkedTimers(c))

\* C16: every change of a context's watch slots and every insertion into or
\* removal from the descriptor table of a shadow handle is made while the
\* thread slot's lock is held, also when the readiness dispatch destroys the
\* handle.
C16_MutationsUnderLock ==
    [][(w' # w \/ \E fd \in DOMAIN fds : fds'[fd].owner # fds[fd].owner)
          => last'.locked]_vars

\* C17: once a readiness event with the hangup flag has been dispatched for
\* a context, ctx->hup stays set through every later watch or timer
\* callback, tick and readiness dispatch.
C17_HupIsSticky ==
    [][\A c \in Ctx : hup[c] => hup'[c]]_vars

\* the handle was destroyed with the closing callback after a hangup, was
\* created again, and a later dispatch on it has forwarded to W1: hup is
\* still set
C17_Witness ==
    /\ hup["A"]
    /\ closings["A"] >= 1
    /\ fds[5].owner = "A"
    /\ last.op = "dbus_watch_handle"
    /\ last.tok = "W1"

\* the occupied slots of context c after slot n
LaterOccupied(c, n) == {k \in Slots : k > n /\ w[c][k] # NULL}

\* C18: in a readiness dispatch the translated flags are forwarded to every
\* watch slot that is occupied when its turn comes; whether or not a watch
\* reports a handling failure, the next occupied slot is forwarded to, then
\* the dispatch queue is drained and the destruction check runs, and the
\* dispatcher returns LWS_HPI_RET_HANDLED.
C18_WatchFailureIsNotFatal ==
    [][/\ (pc = "idle" /\ last'.op = "handle_POLLIN"
              /\ LaterOccupied(last'.ctx, -1) # {})
          => /\ pc' = "watch_handle"
             /\ cur'.wt = w[last'.ctx][Min(LaterOccupied(last'.ctx, -1))]
       /\ \A ok \in BOOLEAN, m \in 0 .. MaxPending, r \in BOOLEAN :
             dbus_watch_handle_return(ok, m, r)
                 => LET c == cur.ctx
                        later == LaterOccupied(c, cur.n)
                    IN  /\ ~aborted'
                        /\ later # {}
                             => /\ pc' = "watch_handle"
                                /\ cur'.n = Min(later)
                                /\ cur'.wt = w[c][Min(later)]
                                /\ cur'.flags = cur.flags
                        /\ (later = {} /\ conn[c] # NULL /\ pending'[c] > 0)
                             => pc' = "dispatch"
                        /\ (later = {} /\ (conn[c] = NULL \/ pending'[c] = 0))
                             => /\ pc' = "idle"
                                /\ last'.hpi = LWS_HPI_RET_HANDLED
                        /\ (later = {} /\ conn[c] # NULL /\ pending'[c] = 0
                               /\ ~Occupied(c) /\ r)
                             => fds'[cur.fd].owner = NULL
       /\ (last'.op \in DispatcherOps /\ pc' = "idle")
          => last'.hpi = LWS_HPI_RET_HANDLED]_vars

\* W1 in slot 0 reported a handling failure and the flags are now being
\* forwarded to W2 in slot 1
C18_Witness ==
    /\ last.op = "dbus_watch_handle"
    /\ last.tok = "W1"
    /\ last.ret = "FALSE"
    /\ pc = "watch_handle"
    /\ cur.n = 1
    /\ cur.wt = "W2"

\* C20: for a connection context with a closing callback, once hangup was
\* seen, every watch is removed, every timer that was added has fired or
\* been removed and libdbus holds nothing buffered, the next readiness
\* dispatch on the still registered shadow handle destroys the handle and
\* calls the closing callback.
C20_ClosingIsDelivered ==
    [][\A fd \in DOMAIN fds, rev \in Revents :
          (/\ rops_handle_POLLIN_dbus(fd, rev, TRUE)
           /\ conn[fds[fd].owner] # NULL
           /\ cb_closing[fds[fd].owner]
           /\ hup[fds[fd].owner]
           /\ ~Occupied(fds[fd].owner)
           /\ LinkedTimers(fds[fd].owner) = {}
           /\ pending[fds[fd].owner] = 0)
              => /\ fds'[fd].owner = NULL
                 /\ last'.cb]_vars

\* C19: when dbus_timeout_handle, called by the periodic tick, calls
\* remove_timeout for the timer being fired or for the next entry of the
\* list, every entry is still unlinked and released exactly once and the
\* sweep never visits a released entry.
C19_SweepReleasesOnce ==
    last.op = "dbus_timeout_handle"
        => last.ret \notin {"released_twice", "visited_released"}

====
